---- MODULE Spec2Model ----
(***************************************************************************)
(* Model of the user-auth service: handlers.AuthHandler (Register, Login,  *)
(* GetProfile), services.AuthService, repository.UserRepository, the JWT   *)
(* middleware and the chi routes of server.NewServer.                      *)
(*                                                                         *)
(* Time is counted in ticks; one second is Second ticks, so that the       *)
(* truncation of a timestamp to whole seconds (time.Time.Unix) is visible. *)
(* A GetProfile request runs in three steps (cache lookup, store lookup,   *)
(* cache insertion) which interleave with the steps of other requests and  *)
(* with the expiry goroutines of the in-process cache.                     *)
(***************************************************************************)
EXTENDS Integers, Sequences, FiniteSets, Bags, TLC

VARIABLES
    users,      \* rows of table users (repository / migration)
    dbSeq,      \* last value drawn from the SERIAL sequence of users.id
    now,        \* wall clock, in ticks
    ticks,      \* number of clock advances so far (bounds the exploration)
    redisOn,    \* AuthService.redis != nil   (shared mode)
    natsOn,     \* AuthService.natsConn != nil
    natsWarned, \* number of "NATS unavailable" warnings logged
    rstore,     \* content of the shared cache backend: key -> [val, exp]
    cache,      \* AuthService.cache (sync.Map): key -> [val, at]; at is the insertion time
    timers,     \* bag of the expiry goroutines of the in-process cache: [key, wake]
    published,  \* messages accepted by the event bus on subject user.verify
    pc,         \* per request slot: position of the GetProfile request it runs
    req,        \* per request slot: the running request
    got,        \* per request slot: the user fetched from the store
    last,       \* the last response sent, with the history of its request
    wallet,     \* the token of the last successful Login, as the client holds it
    issued,     \* history: the time that token was issued, and the email it was issued for
    regs,       \* history: the arguments and the id of every Register that succeeded
    putAt,      \* history: per cache key, the time and value of its last insertion
    pend,       \* the Register calls whose insert has returned and that have not published yet
    srv         \* Server.Start: its position, the Shutdown deadline, the pool

vars == <<users, dbSeq, now, ticks, redisOn, natsOn, natsWarned, rstore, cache, timers,
          published, pc, req, got, last, wallet, issued, regs, putAt, pend, srv>>

-----------------------------------------------------------------------------
(* Bounds of the exploration *)

MaxUsers == 2
MaxTicks == 2
Second == 2

Procs == {"r1", "r2"}
Usernames == {"alice"}
Emails == {"a@x.com", "b@x.com"}
Passwords == {"", "Secret123", "wrong"}

\* passwords of 72 and of 73 bytes with the same first 72
Long72 == "0123456789abcdefghijklmnopqrstuvwxyz0123456789abcdefghijklmnopqrstuvwxyz"
Long73 == Long72 \o "!"
ServicePasswords == {"", "Secret123", Long72, Long73}
Roles == {""}
Salts == {"s1", "s2"}

-----------------------------------------------------------------------------
(* Program constants *)

Minute == 60 * Second
Hour == 60 * Minute

\* services.NewAuthService: cacheTTL: 5 * time.Minute
cacheTTL == 5 * Minute

\* context.WithTimeout(context.Background(), 5*time.Second) of Server.Start
shutdownTimeout == 5 * Second

\* config.Load: TIMEOUT_SECONDS, 30 by default; the deadline of a handler's context
handlerTimeout == 30 * Second

\* services.Login: time.Now().Add(24 * time.Hour)
tokenTTL == 24 * Hour

\* config.Load: JWT_SECRET, required to be non-empty
jwtSecret == "secret"
OtherSecret == "not-the-secret"

MaxInt32 == 2147483647
MinInt32 == (-MaxInt32) - 1

StatusOK == 200
StatusCreated == 201
StatusBadRequest == 400
StatusUnauthorized == 401
StatusNotFound == 404
StatusInternalServerError == 500

-----------------------------------------------------------------------------
(* domain.User and the rows of table users *)

\* domain.User{}: the zero value, the "not found" sentinel (ID == 0)
ZeroUser == [id |-> 0, username |-> "", email |-> "", role |-> "", created_at |-> 0]

\* a conversion that keeps every column of the row
ToDomainWithHash(row) == row

\* repository: the domain.User built from a row; the password hash is left out
ToDomain(row) ==
    [id |-> row.id, username |-> row.username, email |-> row.email,
     role |-> row.role, created_at |-> row.created_at]

RowsByEmail(email) == {r \in users : r.email = email}
RowsByID(id) == {r \in users : r.id = id}

\* Outcomes of one call to the database: it answers, fails, or the request's
\* deadline expires first.
DbOutcomes == {"ok", "error", "timeout"}

\* the same, and the caller's context is cancelled while the call is in flight
CallOutcomes == DbOutcomes \cup {"canceled"}

DbErrorText(out) ==
    IF out = "timeout" THEN "context deadline exceeded"
    ELSE IF out = "canceled" THEN "context canceled"
    ELSE IF out = "closed" THEN "closed pool"
    ELSE "connection refused"

\* The queries run on a pgxpool.Pool (NewUserRepository): a :one query that
\* selects no row ends with pgx.ErrNoRows.  That value is not the value
\* sql.ErrNoRows of database/sql, so the comparison err == sql.ErrNoRows of
\* the repository is false for it and the error is passed on.
ErrNoRows == "no rows in result set"

\* repository.GetUserByEmail: (user, hash, err)
GetUserByEmail(email, out) ==
    IF out # "ok" THEN [user |-> ZeroUser, hash |-> <<>>, err |-> DbErrorText(out)]
    ELSE IF RowsByEmail(email) = {} THEN [user |-> ZeroUser, hash |-> <<>>, err |-> ErrNoRows]
    ELSE LET r == CHOOSE r \in RowsByEmail(email) : TRUE
         IN [user |-> ToDomain(r), hash |-> r.password_hash, err |-> ""]

\* a lookup for which no row is (User{}, nil): the comparison with
\* sql.ErrNoRows succeeds
GetUserByIDNoRowsNil(id, out) ==
    IF out # "ok" THEN [user |-> ZeroUser, err |-> DbErrorText(out)]
    ELSE IF RowsByID(id) = {} THEN [user |-> ZeroUser, err |-> ""]
    ELSE [user |-> ToDomain(CHOOSE r \in RowsByID(id) : TRUE), err |-> ""]

\* repository.GetUserByID: (user, err)
GetUserByID(id, out) ==
    IF out # "ok" THEN [user |-> ZeroUser, err |-> DbErrorText(out)]
    ELSE IF RowsByID(id) = {} THEN [user |-> ZeroUser, err |-> ErrNoRows]
    ELSE [user |-> ToDomain(CHOOSE r \in RowsByID(id) : TRUE), err |-> ""]

\* an insert that is tried a second time when the first attempt fails on the
\* unique constraint
CreateUserRetry(username, email, hash, role, out) ==
    IF out # "ok" THEN [user |-> ZeroUser, err |-> DbErrorText(out), rows |-> users, seq |-> dbSeq]
    ELSE IF RowsByEmail(email) # {}
    THEN [user |-> ZeroUser, err |-> "duplicate key value violates unique constraint",
          rows |-> users, seq |-> dbSeq + 2]
    ELSE LET row == [id |-> dbSeq + 1, username |-> username, email |-> email,
                     password_hash |-> hash, role |-> role, created_at |-> now]
         IN [user |-> ToDomain(row), err |-> "", rows |-> users \cup {row}, seq |-> dbSeq + 1]

\* repository.CreateUser with the INSERT of queries.sql on the table of the
\* migration: id is drawn from the sequence, email is UNIQUE, created_at is NOW().
\* The sequence value is consumed by an insert that then violates the constraint.
CreateUser(username, email, hash, role, out) ==
    IF out # "ok" THEN [user |-> ZeroUser, err |-> DbErrorText(out), rows |-> users, seq |-> dbSeq]
    ELSE IF RowsByEmail(email) # {}
    THEN [user |-> ZeroUser, err |-> "duplicate key value violates unique constraint",
          rows |-> users, seq |-> dbSeq + 1]
    ELSE LET row == [id |-> dbSeq + 1, username |-> username, email |-> email,
                     password_hash |-> hash, role |-> role, created_at |-> now]
         IN [user |-> ToDomain(row), err |-> "", rows |-> users \cup {row}, seq |-> dbSeq + 1]

-----------------------------------------------------------------------------
(* bcrypt: a salted one-way hash.  The hash carries its salt; the digest is  *)
(* modelled as the pair (salt, key), which no other pair produces.  The key *)
(* schedule reads 72 bytes of the password followed by a NUL byte, repeated *)
(* cyclically: for passwords without NUL bytes, the password itself when it *)
(* is at most 72 bytes long and its first 72 bytes otherwise.               *)

\* the bytes of the password that the digest depends on
KeyBytes(password) ==
    IF Len(password) > 72 THEN SubSeq(password, 1, 72) ELSE password

\* bcrypt.GenerateFromPassword refuses the password (ErrPasswordTooLong)
PasswordTooLong(password) == Len(password) > 72

\* bcrypt.GenerateFromPassword(password, DefaultCost) with the salt it drew
GenerateFromPassword(password, salt) == <<salt, <<salt, KeyBytes(password)>>>>

\* a comparison that accepts every password for a well-formed hash
CompareHashOnly(hash, password) == Len(hash) = 2

\* bcrypt.CompareHashAndPassword(hash, password) == nil
CompareHashAndPassword(hash, password) ==
    /\ Len(hash) = 2
    /\ hash[2] = <<hash[1], KeyBytes(password)>>

-----------------------------------------------------------------------------
(* JWT (HS256).  A token is its claims and the key its signature was made   *)
(* with; the signature verifies exactly under that key.                     *)

\* time.Time.Unix(): whole seconds, the fraction dropped
Unix(t) == t \div Second

\* a token whose exp is rounded up to the next whole second
SignedStringRoundedUp(user, secret, t) ==
    [user_id |-> user.id, role |-> user.role,
     exp |-> (t + tokenTTL + Second - 1) \div Second, key |-> secret]

\* services.Login: jwt.NewWithClaims(HS256, {user_id, role, exp}).SignedString(secret)
SignedString(user, secret, t) ==
    [user_id |-> user.id, role |-> user.role, exp |-> Unix(t + tokenTTL), key |-> secret]

\* token strings that are no signed token: the empty string, and other text
NoToken == [user_id |-> 0, role |-> "", exp |-> 0, key |-> "<empty>"]
Malformed == [user_id |-> 0, role |-> "", exp |-> 0, key |-> "<malformed>"]

\* jwt.Parse(tokenStr, keyfunc) with err == nil and token.Valid: the string is
\* a token, the signature verifies under the key and the time is before exp
\* (a NumericDate in seconds)
ParseValid(tok, secret, t) ==
    /\ tok \notin {NoToken, Malformed}
    /\ tok.key = secret
    /\ t < tok.exp * Second

-----------------------------------------------------------------------------
(* encoding/json of domain.User *)

\* json.Marshal(user)
Marshal(user) == <<"json", user.id, user.username, user.email, user.role, user.created_at>>

Garbage == <<"garbage">>

\* json.Unmarshal(val, &user): ok is err == nil
Unmarshal(val) ==
    IF Len(val) = 6 /\ val[1] = "json"
    THEN [ok |-> TRUE,
          user |-> [id |-> val[2], username |-> val[3], email |-> val[4],
                    role |-> val[5], created_at |-> val[6]]]
    ELSE [ok |-> FALSE, user |-> ZeroUser]

\* fmt.Sprintf("user:%d", userID)
CacheKey(id) == <<"user:", id>>

-----------------------------------------------------------------------------
(* services.AuthService *)

\* fmt.Sprintf(`{"user_id": %d, "email": "%s"}`, created.ID, created.Email)
VerifyMsg(user) == <<"user.verify", user.id, user.email>>

\* a Register that returns the publish error
RegisterReturnPublishFatal(created, pubOut) ==
    IF pubOut = "error" THEN [user |-> ZeroUser, err |-> "nats: connection closed"]
    ELSE [user |-> created, err |-> ""]

\* What Register returns once CreateUser has succeeded; the publish outcome
\* is only logged.
RegisterReturn(created, pubOut) == [user |-> created, err |-> ""]

\* a notifier that publishes whether or not the connection was made
NotifierEnabledAlways == TRUE

\* s.natsConn != nil
NotifierEnabled == natsOn

\* a Register that takes the empty password like any other
EmptyPasswordAccepted(password) == FALSE

\* password == ""
EmptyPassword(password) == password = ""

\* a Register that publishes before it persists
RegisterPublishFirst(username, email, password, role, salt, hashOut, dbOut) ==
    LET c == CreateUser(username, email, GenerateFromPassword(password, salt), role, dbOut)
        sent == [id |-> dbSeq + 1, email |-> email]
    IN IF EmptyPassword(password) \/ PasswordTooLong(password) \/ hashOut # "ok"
       THEN [user |-> ZeroUser, err |-> "rejected", rows |-> users, seq |-> dbSeq,
             bus |-> published, inserts |-> 0]
       ELSE [user |-> c.user, err |-> c.err, rows |-> c.rows, seq |-> c.seq,
             bus |-> IF NotifierEnabled THEN Append(published, VerifyMsg(sent))
                     ELSE published,
             inserts |-> 1]

\* services.Register up to the return of s.repo.CreateUser.  salt, hashOut
\* and dbOut are what bcrypt and the database do during the call.  The result
\* carries the values returned so far and the content of the store and of
\* the bus, and inserts, the number of calls of s.repo.CreateUser made; with
\* err empty the call goes on to publish.
Register(username, email, password, role, salt, hashOut, dbOut) ==
    LET unchanged == [rows |-> users, seq |-> dbSeq, bus |-> published, inserts |-> 0]
    IN
    IF EmptyPassword(password)
    THEN [user |-> ZeroUser, err |-> "password required"] @@ unchanged
    ELSE IF PasswordTooLong(password)
    THEN [user |-> ZeroUser, err |-> "bcrypt: password length exceeds 72 bytes"] @@ unchanged
    ELSE IF hashOut # "ok"
    THEN [user |-> ZeroUser, err |-> "bcrypt: salt generation failed"] @@ unchanged
    ELSE LET c == CreateUser(username, email, GenerateFromPassword(password, salt), role, dbOut)
         IN [user |-> IF c.err # "" THEN ZeroUser ELSE c.user, err |-> c.err,
             rows |-> c.rows, seq |-> c.seq, bus |-> published, inserts |-> 1]

\* services.Register after CreateUser: s.natsConn.Publish("user.verify", msg)
\* when the notifier is enabled; tried tells whether Publish was called
Publish(created, pubOut) ==
    [bus |-> IF NotifierEnabled /\ pubOut = "ok"
             THEN Append(published, VerifyMsg(created)) ELSE published,
     tried |-> NotifierEnabled]

\* a Login that calls the store a second time when the first call fails; the
\* second call fails as the first did
LoginRetry(email, password, dbOut, t) ==
    LET g == GetUserByEmail(email, dbOut)
    IN IF g.err # "" THEN [token |-> NoToken, err |-> g.err, lookups |-> 2]
       ELSE IF g.user.id = 0
            THEN [token |-> NoToken, err |-> "user not found", lookups |-> 1]
       ELSE IF ~CompareHashAndPassword(g.hash, password)
            THEN [token |-> NoToken, err |-> "invalid password", lookups |-> 1]
       ELSE [token |-> SignedString(g.user, jwtSecret, t), err |-> "", lookups |-> 1]

\* services.Login at time t: (token, err), and lookups, the number of calls of
\* s.repo.GetUserByEmail made
Login(email, password, dbOut, t) ==
    LET g == GetUserByEmail(email, dbOut)
    IN IF g.err # "" THEN [token |-> NoToken, err |-> g.err, lookups |-> 1]
       ELSE IF g.user.id = 0
            THEN [token |-> NoToken, err |-> "user not found", lookups |-> 1]
       ELSE IF ~CompareHashAndPassword(g.hash, password)
            THEN [token |-> NoToken, err |-> "invalid password", lookups |-> 1]
       ELSE [token |-> SignedString(g.user, jwtSecret, t), err |-> "", lookups |-> 1]

\* Outcomes of one call to the shared cache backend; a Get may also hand back
\* bytes that do not decode
RedisGetOutcomes == {"ok", "error", "undecodable"}
RedisSetOutcomes == {"ok", "error"}

\* s.redis.Get(ctx, cacheKey).Result() at time t: the stored bytes, redis.Nil
\* or another error.  bytes is what the client hands back: the stored value,
\* or bytes that do not decode.
RedisGet(key, out, t) ==
    IF out = "error" THEN [err |-> "error", val |-> Garbage]
    ELSE IF key \in DOMAIN rstore /\ t < rstore[key].exp
    THEN [err |-> "", val |-> IF out = "undecodable" THEN Garbage ELSE rstore[key].val]
    ELSE [err |-> "nil", val |-> Garbage]

\* services.GetProfile, the cache lookup: found is the early return
CacheLookup(id, out, t) ==
    IF redisOn
    THEN LET r == RedisGet(CacheKey(id), out, t)
         IN IF r.err = "" /\ Unmarshal(r.val).ok
            THEN [found |-> TRUE, user |-> Unmarshal(r.val).user,
                  how |-> "hit", age |-> t - (rstore[CacheKey(id)].exp - cacheTTL)]
            ELSE [found |-> FALSE, user |-> ZeroUser, age |-> 0,
                  how |-> IF r.err = "" THEN "undecodable"
                          ELSE IF r.err = "nil" THEN "miss" ELSE "error"]
    ELSE IF CacheKey(id) \in DOMAIN cache
         THEN [found |-> TRUE, user |-> cache[CacheKey(id)].val, how |-> "hit",
               age |-> t - cache[CacheKey(id)].at]
         ELSE [found |-> FALSE, user |-> ZeroUser, how |-> "miss", age |-> 0]

\* an insertion that falls back to the in-process map when the shared
\* backend fails
UsesMapOnFailure(setOut) == ~redisOn \/ setOut = "error"

\* the insertion goes to the in-process map: the else branch of s.redis != nil
UsesMap(setOut) == ~redisOn

\* a GetProfile that returns the error of the cache insertion
GetProfileReturnSetFatal(user, setOut) ==
    IF setOut = "error" THEN [user |-> ZeroUser, err |-> "redis: connection refused"]
    ELSE [user |-> user, err |-> ""]

\* What GetProfile returns after the store lookup succeeded and the cache
\* insertion was tried: the user, whatever the insertion did.
GetProfileReturn(user, setOut) == [user |-> user, err |-> ""]

\* time.Sleep(s.cacheTTL) started at time t ends at
ExpiryWake(t) == t + cacheTTL

-----------------------------------------------------------------------------
(* validator, as the handlers use it *)

\* validator.ValidateRequired
ValidateRequired(value) == value # ""

\* ValidateUsername, ValidateEmail, ValidatePassword, ValidateRole all pass
ValidRegistration(username, email, password, role) ==
    /\ ValidateRequired(username)
    /\ ValidateRequired(email)
    /\ ValidateRequired(password)

-----------------------------------------------------------------------------
(* middleware.AuthMiddleware and the routes of server.NewServer *)

Bearer == "Bearer "

\* A header value is a scheme prefix followed by a token string; the empty
\* header value has no prefix and the empty token string.
Header(prefix, tok) == [prefix |-> prefix, rest |-> tok]
NoHeader == Header("", NoToken)

\* strings.TrimPrefix(authHeader, "Bearer ")
TrimPrefix(header) ==
    IF header.prefix = Bearer THEN Header("", header.rest) ELSE header

\* the token a string parses to: a string that still has a prefix is no token
TokenOf(tokenStr) == IF tokenStr.prefix = "" THEN tokenStr.rest ELSE Malformed

\* a middleware that lets every request with an Authorization header through
AuthMiddlewareHeaderOnly(header, t) == header # NoHeader

\* a middleware that also compares the role claim of the token
AuthMiddlewareAdminOnly(header, t) ==
    /\ header # NoHeader
    /\ ParseValid(TokenOf(TrimPrefix(header)), jwtSecret, t)
    /\ TokenOf(TrimPrefix(header)).role = "admin"

\* AuthMiddleware calls next.ServeHTTP at time t
AuthMiddleware(header, t) ==
    /\ header # NoHeader
    /\ ParseValid(TokenOf(TrimPrefix(header)), jwtSecret, t)

\* r.Route("/users", ... r.Use(AuthMiddleware)): the routes behind the middleware
Protected(route) == route = "GET /users/{id}"

\* a request on route passes to the route's handler
Admitted(route, header, t) == Protected(route) => AuthMiddleware(header, t)

Unauthorized == [status |-> StatusUnauthorized, body |-> [error |-> "unauthorized"]]

-----------------------------------------------------------------------------
(* handlers.AuthHandler *)

WriteError(message, status) == [status |-> status, body |-> [error |-> message]]

\* validator.Errors(): one ValidationError per field that failed, in the order
\* of the checks; checks is a sequence of [field, ok]
RECURSIVE Errors(_)
Errors(checks) ==
    IF checks = <<>> THEN <<>>
    ELSE IF Head(checks).ok THEN Errors(Tail(checks))
    ELSE <<Head(checks).field>> \o Errors(Tail(checks))

\* the checks of handlers.Register and of handlers.Login
RegisterChecks(username, email, password, role) ==
    <<[field |-> "username", ok |-> ValidateRequired(username)],
      [field |-> "email", ok |-> ValidateRequired(email)],
      [field |-> "password", ok |-> ValidateRequired(password)],
      [field |-> "role", ok |-> TRUE]>>

LoginChecks(email, password) ==
    <<[field |-> "email", ok |-> ValidateRequired(email)],
      [field |-> "password", ok |-> ValidateRequired(password)]>>

\* writeValidationError(w, errors)
ValidationFailed(errors) ==
    [status |-> StatusBadRequest, body |-> [error |-> "validation failed", fields |-> errors]]

\* handlers.Register, after the service call
RegisterResponse(r) ==
    IF r.err # "" THEN WriteError(r.err, StatusInternalServerError)
    ELSE [status |-> StatusCreated, body |-> r.user]

\* a Login handler that passes the service's error text on
LoginResponseLeaky(r) ==
    IF r.err # "" THEN WriteError(r.err, StatusUnauthorized)
    ELSE [status |-> StatusOK, body |-> [token |-> r.token]]

\* handlers.Login, after the service call
LoginResponse(r) ==
    IF r.err # "" THEN WriteError("invalid credentials", StatusUnauthorized)
    ELSE [status |-> StatusOK, body |-> [token |-> r.token]]

\* handlers.Login as a function of the request, the store and the time
HandlerLogin(email, password, dbOut, t) ==
    IF Errors(LoginChecks(email, password)) # <<>>
    THEN ValidationFailed(Errors(LoginChecks(email, password)))
    ELSE LoginResponse(Login(email, password, dbOut, t))

\* handlers.GetProfile, after the service call
ProfileResponse(r) ==
    IF r.err # "" THEN WriteError("internal server error", StatusInternalServerError)
    ELSE IF r.user.id = 0 THEN WriteError("user not found", StatusNotFound)
    ELSE [status |-> StatusOK, body |-> r.user]

DigitValue ==
    [c \in {"0", "1", "2", "3", "4", "5", "6", "7", "8", "9"} |->
        CASE c = "0" -> 0 [] c = "1" -> 1 [] c = "2" -> 2 [] c = "3" -> 3 [] c = "4" -> 4
          [] c = "5" -> 5 [] c = "6" -> 6 [] c = "7" -> 7 [] c = "8" -> 8 [] c = "9" -> 9]

ParseFailed == [ok |-> FALSE, value |-> 0]

\* the largest n with 10 * n + d <= 2^31, the magnitude of MinInt32
NegLimit(d) == IF d = 0 THEN MaxInt32 \div 10 ELSE (MaxInt32 - (d - 1)) \div 10

\* the digits of s read onto acc, away from zero when neg; a character that is
\* no digit is a syntax error, a value outside int32 a range error
RECURSIVE ParseDigits(_, _, _)
ParseDigits(s, acc, neg) ==
    IF s = <<>> THEN [ok |-> TRUE, value |-> acc]
    ELSE IF Head(s) \notin DOMAIN DigitValue THEN ParseFailed
    ELSE LET d == DigitValue[Head(s)]
         IN IF neg
            THEN IF acc < -NegLimit(d) THEN ParseFailed
                 ELSE ParseDigits(Tail(s), acc * 10 - d, neg)
            ELSE IF acc > (MaxInt32 - d) \div 10 THEN ParseFailed
                 ELSE ParseDigits(Tail(s), acc * 10 + d, neg)

\* strconv.ParseInt(s, 10, 32) of a string given as its characters
ParseInt(s) ==
    IF s = <<>> THEN ParseFailed
    ELSE IF Head(s) \in {"-", "+"}
    THEN IF Tail(s) = <<>> THEN ParseFailed ELSE ParseDigits(Tail(s), 0, Head(s) = "-")
    ELSE ParseDigits(s, 0, FALSE)

-----------------------------------------------------------------------------
(* config.Load *)

\* values of the environment variable JWT_EXPIRY_HOURS, as characters: unset,
\* "1", "24", text that is no number, "-10", 2^31, and the first number of
\* hours whose nanoseconds do not fit 64 bits
ExpiryEnvs ==
    {<<>>, <<"1">>, <<"2", "4">>, <<"x">>, <<"-", "1", "0">>,
     <<"2", "1", "4", "7", "4", "8", "3", "6", "4", "8">>,
     <<"2", "5", "6", "2", "0", "4", "8">>}

\* Go's int and time.Duration on the build's platform: 8 bytes in two's
\* complement, written as a sequence of bytes, the least significant first
IntBytes == 8

\* the number n, 0 <= n < 2^31, in w bytes
Bytes(n, w) == [i \in 1..w |-> IF i <= 4 THEN (n \div 256^(i - 1)) % 256 ELSE 0]

\* the bytes of the number whose byte i holds columns[i], a natural number of
\* any size: the carries are passed on and the last one is dropped, which is
\* how the machine's arithmetic wraps
RECURSIVE Carried(_, _, _)
Carried(columns, i, carry) ==
    IF i > Len(columns) THEN <<>>
    ELSE LET v == columns[i] + carry
         IN <<v % 256>> \o Carried(columns, i + 1, v \div 256)

AddBytes(a, b) == Carried([i \in 1..Len(a) |-> a[i] + b[i]], 1, 0)

RECURSIVE ColumnSum(_, _, _, _)
ColumnSum(a, b, k, i) ==
    IF i > k THEN 0 ELSE a[i] * b[k + 1 - i] + ColumnSum(a, b, k, i + 1)

\* a * b in the width of a: the product wraps as Go's does
MulBytes(a, b) == Carried([k \in 1..Len(a) |-> ColumnSum(a, b, k, 1)], 1, 0)

NegBytes(a) == AddBytes([i \in 1..Len(a) |-> 255 - a[i]], Bytes(1, Len(a)))

SubBytes(a, b) == AddBytes(a, NegBytes(b))

Negative(a) == a[Len(a)] >= 128

\* the same number in w >= Len(a) bytes
Extend(a, w) ==
    [i \in 1..w |-> IF i <= Len(a) THEN a[i] ELSE IF Negative(a) THEN 255 ELSE 0]

MaxInt64 == [i \in 1..IntBytes |-> IF i < IntBytes THEN 255 ELSE 127]
MinInt64 == [i \in 1..IntBytes |-> IF i < IntBytes THEN 0 ELSE 128]

\* a < b, both read as unsigned numbers of the same width, from byte i down
RECURSIVE BelowFrom(_, _, _)
BelowFrom(a, b, i) ==
    IF i = 0 THEN FALSE
    ELSE IF a[i] # b[i] THEN a[i] < b[i]
    ELSE BelowFrom(a, b, i - 1)

Below(a, b) == BelowFrom(a, b, Len(a))

\* strconv.ParseUint's cutoff for base 10: (2^64 - 1) / 10 + 1
Cutoff == <<154, 153, 153, 153, 153, 153, 153, 25>>

\* strconv.ParseUint(s, 10, 64) on digits: the digits ds read onto n, a range
\* error when n * 10 or n * 10 + d leaves 64 bits
RECURSIVE ParseUint(_, _)
ParseUint(ds, n) ==
    IF ds = <<>> THEN [ok |-> TRUE, value |-> n]
    ELSE IF ~Below(n, Cutoff) THEN [ok |-> FALSE, value |-> n]
    ELSE LET n1 == AddBytes(MulBytes(n, Bytes(10, IntBytes)), Bytes(Head(ds), IntBytes))
         IN IF Below(n1, MulBytes(n, Bytes(10, IntBytes))) THEN [ok |-> FALSE, value |-> n]
            ELSE ParseUint(Tail(ds), n1)

\* strconv.Atoi(s) of a string given as its characters: an optional sign and
\* decimal digits, the value within 64 bits; 0 with a syntax error, the
\* nearest int with a range error
Atoi(s) ==
    LET neg == s # <<>> /\ Head(s) = "-"
        body == IF s # <<>> /\ Head(s) \in {"-", "+"} THEN Tail(s) ELSE s
    IN IF body = <<>> \/ \E i \in 1..Len(body) : body[i] \notin DOMAIN DigitValue
       THEN [ok |-> FALSE, value |-> Bytes(0, IntBytes)]
       ELSE LET un == ParseUint([i \in 1..Len(body) |-> DigitValue[body[i]]], Bytes(0, IntBytes))
            IN IF ~un.ok \/ (~neg /\ ~Below(un.value, MinInt64))
                         \/ (neg /\ Below(MinInt64, un.value))
               THEN [ok |-> FALSE, value |-> IF neg THEN MinInt64 ELSE MaxInt64]
               ELSE [ok |-> TRUE, value |-> IF neg THEN NegBytes(un.value) ELSE un.value]

\* getEnvAsInt(key, defaultValue): strconv.Atoi of the value, or the default
getEnvAsInt(valueStr, defaultValue) ==
    IF Atoi(valueStr).ok THEN Atoi(valueStr).value ELSE defaultValue

\* time.Hour, a Duration: the nanoseconds of an hour
HourDuration == MulBytes(Bytes(3600, IntBytes), Bytes(1000000000, IntBytes))

\* Config.JWTExpiry: time.Duration(jwtExpiryHours) * time.Hour, a product in
\* 64 bits
JWTExpiry(valueStr) == MulBytes(getEnvAsInt(valueStr, Bytes(24, IntBytes)), HourDuration)

-----------------------------------------------------------------------------
(* Requests *)

\* a token for user 1 signed by someone who does not know the secret
Forged(t) == SignedString([id |-> 1, role |-> "admin"], OtherSecret, t)

\* Authorization headers a client can send at time t: none, the token it
\* holds after Bearer, after no prefix and after Basic, a forged token, text
Headers(t) ==
    {NoHeader, Header(Bearer, wallet), Header("", wallet), Header("Basic ", wallet),
     Header(Bearer, Forged(t)), Header(Bearer, Malformed)}

\* headers sent to the routes that need no token
OpenHeaders == {NoHeader, Header(Bearer, Malformed)}

\* the header carries a token with a valid signature and unexpired claims at time t
CarriesValidToken(header, t) ==
    \E tok \in {wallet, Forged(t), Malformed} :
        /\ header \in {Header(Bearer, tok), Header("", tok)}
        /\ tok.key = jwtSecret
        /\ t < tok.exp * Second

\* {id} path parameters, as strings of characters
Params ==
    {<<"1">>, <<"2">>, <<"a", "b", "c">>,
     <<"2", "1", "4", "7", "4", "8", "3", "6", "4", "8">>}

NoStore == [user |-> ZeroUser, err |-> "not called"]

\* the running request of a slot: the id asked for, and what the request saw
\* when it arrived:
\* the calls one operation has made to the store, the cache and the bus:
\*   get      cache lookups (s.redis.Get or s.cache.Load)
\*   lookup   store lookups (GetUserByEmail, GetUserByID)
\*   set      cache insertions (s.redis.Set or s.cache.Store)
\*   insert   store writes (CreateUser)
\*   drawn    ids the store writes drew from the sequence
\*   publish  calls of s.natsConn.Publish
NoCalls == [get |-> 0, lookup |-> 0, set |-> 0, insert |-> 0, drawn |-> 0, publish |-> 0]

\*   bare   it had no Authorization header
\*   valid  its header carried a valid token
\*   how    outcome of the cache lookup: hit, miss, error, undecodable, none
\*   fresh  the lookup came within the TTL of the key's last insertion, which
\*          inserted an existing user, and the backend answered it
\*   early  it arrived while the table held no row for the id
\*   late   it arrived after a Register had returned the user with the id
\* what its store lookup met:
\*   db     the outcome of the database call, if made
\*   found  the table held a row for the id
\* and
\*   calls  the calls the operation has made so far
NoReq ==
    [id |-> 0, bare |-> TRUE, valid |-> FALSE, how |-> "none", fresh |-> FALSE,
     early |-> FALSE, late |-> FALSE, db |-> "none", found |-> FALSE, calls |-> NoCalls]

\* the last response with the history of its request: the fields of the
\* request, and
\*   handler  the route's handler was invoked
\*   db, pub  the outcomes of the database call and of the publish, if made;
\*            db is "duplicate" for an insert the UNIQUE constraint refused
\*   found    the store lookup of GetProfile found a row
\*   err      the error the service returned
\*   stale    on a cache hit, the entry was inserted more than the TTL ago
\*   first    on a cache hit, the value of the key's last insertion
\*   store    the result of the store lookup of GetProfile
\*   set      the outcome of the cache insertion of GetProfile
\*   calls    the calls the operation made
NoLast ==
    [op |-> "none", bare |-> TRUE, valid |-> FALSE, handler |-> FALSE,
     email |-> "", password |-> "", db |-> "none", pub |-> "none", err |-> "",
     found |-> FALSE, id |-> 0, how |-> "none", fresh |-> FALSE, early |-> FALSE,
     late |-> FALSE, stale |-> FALSE, first |-> ZeroUser,
     store |-> NoStore, set |-> "none", calls |-> NoCalls,
     status |-> 0, body |-> [error |-> ""]]

Arrival(route, header, t) ==
    [NoLast EXCEPT !.op = route, !.bare = (header = NoHeader),
                   !.valid = CarriesValidToken(header, t)]

\* Server.Start, blocked on <-quit: the listener accepts requests and the pool
\* is open.  at is the position of Start:
\*   serving   before the signal
\*   shutting  inside httpServer.Shutdown(ctx); deadline is the deadline of ctx
\*   returned  Shutdown has returned; forced when it returned ctx's error
\*   closed    pool.Close() has run
\*   exited    Start has returned and main with it: the process is gone
Serving == [at |-> "serving", deadline |-> 0, forced |-> FALSE, pool |-> "open"]

\* NewAuthService has run: the cache mode and the state of the notifier are
\* chosen, the caches are empty, no request has been served
Constructed ==
    /\ now = 0
    /\ ticks = 0
    /\ redisOn \in BOOLEAN
    /\ natsOn \in BOOLEAN
    /\ natsWarned = IF natsOn THEN 0 ELSE 1
    /\ rstore = [k \in {} |-> 0]
    /\ cache = [k \in {} |-> 0]
    /\ timers = EmptyBag
    /\ pc = [p \in Procs |-> "idle"]
    /\ req = [p \in Procs |-> NoReq]
    /\ got = [p \in Procs |-> ZeroUser]
    /\ last = NoLast
    /\ wallet = NoToken
    /\ issued = [at |-> 0, email |-> ""]
    /\ putAt = [k \in {} |-> 0]
    /\ pend = {}
    /\ srv = Serving

\* the service starts on an empty table
Init ==
    /\ Constructed
    /\ users = {}
    /\ dbSeq = 0
    /\ regs = {}
    /\ published = <<>>

\* the row CreateUser inserts for a registration that draws id at time t
Row(id, username, email, password, role, salt, t) ==
    [id |-> id, username |-> username, email |-> email,
     password_hash |-> GenerateFromPassword(password, salt), role |-> role, created_at |-> t]

\* the service starts on a table that holds two users, registered through an
\* instance that has stopped
InitSeeded ==
    /\ Constructed
    /\ users = {Row(1, "alice", "a@x.com", "Secret123", "user", "s1", 0),
                Row(2, "bob", "b@x.com", "Secret123", "admin", "s2", 0)}
    /\ dbSeq = 2
    /\ regs = {[id |-> 1, email |-> "a@x.com", password |-> "Secret123", role |-> "user"],
               [id |-> 2, email |-> "b@x.com", password |-> "Secret123", role |-> "admin"]}
    /\ published = <<>>

storeVars == <<users, dbSeq, published, regs, pend>>
cacheVars == <<rstore, cache, timers, putAt>>
slotVars == <<pc, req, got>>
clockVars == <<now, ticks>>
modeVars == <<redisOn, natsOn, natsWarned, srv>>
tokenVars == <<wallet, issued>>

\* what a Register records of its insert: no call, the outcome of the call,
\* or "duplicate" for an insert the UNIQUE constraint refused
InsertOutcome(hashed, email, dbOut) ==
    IF ~hashed THEN "none"
    ELSE IF dbOut # "ok" THEN dbOut
    ELSE IF RowsByEmail(email) # {} THEN "duplicate" ELSE "ok"

\* POST /register, from the arrival of the request to the return of
\* CreateUser: a request that fails on the way is answered, one whose insert
\* succeeded goes on in RegisterReturns
HandleRegister(header, username, email, password, role, salt, hashOut, dbOut) ==
    /\ dbSeq < MaxUsers
    /\ Admitted("POST /register", header, now)
    /\ LET errors == Errors(RegisterChecks(username, email, password, role))
           valid == errors = <<>>
           role2 == IF role = "" THEN "user" ELSE role
           r == Register(username, email, password, role2, salt, hashOut, dbOut)
           out == IF valid THEN RegisterResponse(r) ELSE ValidationFailed(errors)
           arrival == [Arrival("POST /register", header, now) EXCEPT
                         !.handler = TRUE, !.email = email, !.password = password,
                         !.db = InsertOutcome(valid /\ ~PasswordTooLong(password) /\ hashOut = "ok",
                                               email, dbOut),
                         !.calls = [NoCalls EXCEPT
                                      !.insert = IF valid THEN r.inserts ELSE 0,
                                      !.drawn = IF valid THEN r.seq - dbSeq ELSE 0]]
       IN /\ users' = IF valid THEN r.rows ELSE users
          /\ dbSeq' = IF valid THEN r.seq ELSE dbSeq
          /\ published' = IF valid THEN r.bus ELSE published
          /\ IF valid /\ r.err = ""
             THEN /\ pend' = pend \cup {[arrival |-> arrival, user |-> r.user, role |-> role2]}
                  /\ UNCHANGED last
             ELSE /\ last' = [arrival EXCEPT !.err = IF valid THEN r.err ELSE "validation",
                                             !.status = out.status, !.body = out.body]
                  /\ UNCHANGED pend
    /\ UNCHANGED <<regs, cacheVars, slotVars, clockVars, modeVars, tokenVars>>

\* POST /register, after CreateUser: the publish, the return of
\* services.Register and the response of the handler
RegisterReturns(g, pubOut) ==
    /\ g \in pend
    /\ g.arrival.op = "POST /register"
    /\ LET b == Publish(g.user, pubOut)
           r == RegisterReturn(g.user, pubOut)
           out == RegisterResponse(r)
       IN /\ published' = b.bus
          /\ last' = [g.arrival EXCEPT !.pub = IF b.tried THEN pubOut ELSE "none",
                                       !.calls.publish = IF b.tried THEN 1 ELSE 0,
                                       !.err = r.err,
                                       !.status = out.status, !.body = out.body]
          /\ regs' = IF r.err = ""
                     THEN regs \cup {[id |-> g.user.id, email |-> g.arrival.email,
                                      password |-> g.arrival.password, role |-> g.role]}
                     ELSE regs
    /\ pend' = pend \ {g}
    /\ UNCHANGED <<users, dbSeq, cacheVars, slotVars, clockVars, modeVars, tokenVars>>

\* POST /login
HandleLogin(header, email, password, dbOut) ==
    /\ Admitted("POST /login", header, now)
    /\ LET valid == Errors(LoginChecks(email, password)) = <<>>
           r == Login(email, password, dbOut, now)
           out == HandlerLogin(email, password, dbOut, now)
       IN /\ last' = [Arrival("POST /login", header, now) EXCEPT
                        !.handler = TRUE, !.email = email, !.password = password,
                        !.db = IF valid THEN dbOut ELSE "none",
                        !.calls.lookup = IF valid THEN r.lookups ELSE 0,
                        !.err = IF valid THEN r.err ELSE "validation",
                        !.status = out.status, !.body = out.body]
          /\ wallet' = IF out.status = StatusOK THEN out.body.token ELSE wallet
          /\ issued' = IF out.status = StatusOK THEN [at |-> now, email |-> email]
                       ELSE issued
    /\ UNCHANGED <<storeVars, cacheVars, slotVars, clockVars, modeVars>>

\* GET /health and GET /metrics
ServeOpen(route, header) ==
    /\ Admitted(route, header, now)
    /\ last' = [Arrival(route, header, now) EXCEPT !.handler = TRUE, !.status = StatusOK]
    /\ UNCHANGED <<storeVars, cacheVars, slotVars, clockVars, modeVars, tokenVars>>

\* AuthService.Register called directly (no validator, no default role), up
\* to the return of CreateUser
ServiceRegister(username, email, password, role, salt, hashOut, dbOut) ==
    /\ dbSeq < MaxUsers
    /\ LET r == Register(username, email, password, role, salt, hashOut, dbOut)
           hashed == password # "" /\ ~PasswordTooLong(password) /\ hashOut = "ok"
           call == [NoLast EXCEPT
                      !.op = "Register", !.email = email, !.password = password,
                      !.db = InsertOutcome(hashed, email, dbOut),
                      !.calls = [NoCalls EXCEPT !.insert = r.inserts,
                                                !.drawn = r.seq - dbSeq]]
       IN /\ users' = r.rows
          /\ dbSeq' = r.seq
          /\ published' = r.bus
          /\ IF r.err = ""
             THEN /\ pend' = pend \cup {[arrival |-> call, user |-> r.user, role |-> role]}
                  /\ UNCHANGED last
             ELSE /\ last' = [call EXCEPT !.err = r.err, !.body = r.user]
                  /\ UNCHANGED pend
    /\ UNCHANGED <<regs, cacheVars, slotVars, clockVars, modeVars, tokenVars>>

\* AuthService.Register called directly, after CreateUser: the publish and
\* the return
ServiceRegisterReturns(g, pubOut) ==
    /\ g \in pend
    /\ g.arrival.op = "Register"
    /\ LET b == Publish(g.user, pubOut)
           r == RegisterReturn(g.user, pubOut)
       IN /\ published' = b.bus
          /\ last' = [g.arrival EXCEPT !.pub = IF b.tried THEN pubOut ELSE "none",
                                       !.calls.publish = IF b.tried THEN 1 ELSE 0,
                                       !.err = r.err, !.body = r.user]
          /\ regs' = IF r.err = ""
                     THEN regs \cup {[id |-> g.user.id, email |-> g.arrival.email,
                                      password |-> g.arrival.password, role |-> g.role]}
                     ELSE regs
    /\ pend' = pend \ {g}
    /\ UNCHANGED <<users, dbSeq, cacheVars, slotVars, clockVars, modeVars, tokenVars>>

\* AuthService.Login called directly
ServiceLogin(email, password, dbOut) ==
    /\ LET r == Login(email, password, dbOut, now)
       IN last' = [NoLast EXCEPT
                     !.op = "Login", !.email = email, !.password = password,
                     !.db = dbOut, !.calls.lookup = r.lookups,
                     !.err = r.err, !.body = [token |-> r.token]]
    /\ UNCHANGED <<storeVars, cacheVars, slotVars, clockVars, modeVars, tokenVars>>

\* the response of GET /users/{id} to the request q
Respond(q, out, stale, first, store, set) ==
    [NoLast EXCEPT !.op = "GET /users/{id}", !.bare = q.bare, !.valid = q.valid,
                   !.handler = TRUE, !.id = q.id, !.how = q.how, !.fresh = q.fresh,
                   !.early = q.early, !.late = q.late,
                   !.db = q.db, !.found = q.found, !.calls = q.calls,
                   !.stale = stale, !.first = first, !.store = store, !.set = set,
                   !.status = out.status, !.body = out.body]

\* handlers.GetProfile up to the cache lookup of services.GetProfile, for a
\* request that arrived as arrival
HandlerGetProfile(p, arrival, param, cacheOut) ==
    /\ pc[p] = "idle"
    /\ LET parsed == ParseInt(param)
           key == CacheKey(parsed.value)
           c == CacheLookup(parsed.value, cacheOut, now)
           inserted == key \in DOMAIN putAt
           q == [id |-> parsed.value, bare |-> arrival.bare, valid |-> arrival.valid,
                 how |-> IF parsed.ok THEN c.how ELSE "none",
                 fresh |-> /\ parsed.ok
                           /\ inserted
                           /\ putAt[key].val.id # 0
                           /\ now < putAt[key].at + cacheTTL
                           /\ redisOn => cacheOut = "ok",
                 early |-> parsed.ok /\ RowsByID(parsed.value) = {},
                 late |-> parsed.ok /\ \E g \in regs : g.id = parsed.value,
                 db |-> "none", found |-> FALSE,
                 calls |-> [NoCalls EXCEPT !.get = IF parsed.ok THEN 1 ELSE 0]]
       IN IF ~parsed.ok
          THEN /\ last' = Respond(q, WriteError("invalid user ID", StatusBadRequest),
                                  FALSE, ZeroUser, NoStore, "none")
               /\ UNCHANGED <<pc, req>>
          ELSE IF c.found
          THEN /\ last' = Respond(q, ProfileResponse([user |-> c.user, err |-> ""]),
                                  c.age > cacheTTL,
                                  IF inserted THEN putAt[key].val ELSE ZeroUser,
                                  NoStore, "none")
               /\ UNCHANGED <<pc, req>>
          ELSE /\ pc' = [pc EXCEPT ![p] = "fetch"]
               /\ req' = [req EXCEPT ![p] = q]
               /\ UNCHANGED last
    /\ UNCHANGED <<storeVars, cacheVars, got, clockVars, modeVars, tokenVars>>

\* GET /users/{id}: the middleware, then the handler
GetUsers(p, header, param, cacheOut) ==
    IF Admitted("GET /users/{id}", header, now)
    THEN HandlerGetProfile(p, Arrival("GET /users/{id}", header, now), param, cacheOut)
    ELSE /\ pc[p] = "idle"
         /\ last' = [Arrival("GET /users/{id}", header, now) EXCEPT
                       !.status = Unauthorized.status, !.body = Unauthorized.body]
         /\ UNCHANGED <<storeVars, cacheVars, slotVars, clockVars, modeVars, tokenVars>>

\* a GetProfile that takes the lookup's no-rows error for "not found" and
\* goes on to cache the zero user
FetchNoRowsAsNotFound(p, dbOut) ==
    /\ pc[p] = "fetch"
    /\ LET g == GetUserByID(req[p].id, dbOut)
           q == [req[p] EXCEPT !.db = dbOut,
                               !.found = dbOut = "ok" /\ RowsByID(req[p].id) # {},
                               !.calls.lookup = @ + 1]
       IN IF g.err \notin {"", ErrNoRows}
          THEN /\ last' = Respond(q, ProfileResponse(g), FALSE, ZeroUser, g, "none")
               /\ pc' = [pc EXCEPT ![p] = "idle"]
               /\ req' = [req EXCEPT ![p] = NoReq]
               /\ UNCHANGED got
          ELSE /\ got' = [got EXCEPT ![p] = g.user]
               /\ pc' = [pc EXCEPT ![p] = "put"]
               /\ req' = [req EXCEPT ![p] = q]
               /\ UNCHANGED last
    /\ UNCHANGED <<storeVars, cacheVars, clockVars, modeVars, tokenVars>>

\* a GetProfile that calls the store a second time when the first call fails
FetchRetry(p, dbOut) ==
    /\ pc[p] = "fetch"
    /\ LET g == GetUserByID(req[p].id, dbOut)
           q == [req[p] EXCEPT !.db = dbOut,
                               !.found = dbOut = "ok" /\ RowsByID(req[p].id) # {},
                               !.calls.lookup = @ + 1]
       IN IF g.err # "" /\ req[p].calls.lookup = 0
          THEN /\ req' = [req EXCEPT ![p] = q]
               /\ UNCHANGED <<pc, got, last>>
          ELSE IF g.err # ""
          THEN /\ last' = Respond(q, ProfileResponse(g), FALSE, ZeroUser, g, "none")
               /\ pc' = [pc EXCEPT ![p] = "idle"]
               /\ req' = [req EXCEPT ![p] = NoReq]
               /\ UNCHANGED got
          ELSE /\ got' = [got EXCEPT ![p] = g.user]
               /\ pc' = [pc EXCEPT ![p] = "put"]
               /\ req' = [req EXCEPT ![p] = q]
               /\ UNCHANGED last
    /\ UNCHANGED <<storeVars, cacheVars, clockVars, modeVars, tokenVars>>

\* services.GetProfile: s.repo.GetUserByID
Fetch(p, dbOut) ==
    /\ pc[p] = "fetch"
    /\ LET g == GetUserByID(req[p].id, dbOut)
           q == [req[p] EXCEPT !.db = dbOut,
                               !.found = dbOut = "ok" /\ RowsByID(req[p].id) # {},
                               !.calls.lookup = @ + 1]
       IN IF g.err # ""
          THEN /\ last' = Respond(q, ProfileResponse(g), FALSE, ZeroUser, g, "none")
               /\ pc' = [pc EXCEPT ![p] = "idle"]
               /\ req' = [req EXCEPT ![p] = NoReq]
               /\ UNCHANGED got
          ELSE /\ got' = [got EXCEPT ![p] = g.user]
               /\ pc' = [pc EXCEPT ![p] = "put"]
               /\ req' = [req EXCEPT ![p] = q]
               /\ UNCHANGED last
    /\ UNCHANGED <<storeVars, cacheVars, clockVars, modeVars, tokenVars>>

\* services.GetProfile: the cache insertion and the return; handlers.GetProfile:
\* the response
Put(p, setOut) ==
    /\ pc[p] = "put"
    /\ LET key == CacheKey(req[p].id)
           stored == redisOn => setOut = "ok"
       IN /\ rstore' = IF redisOn /\ setOut = "ok"
                        THEN (key :> [val |-> Marshal(got[p]), exp |-> now + cacheTTL]) @@ rstore
                        ELSE rstore
          /\ cache' = IF ~UsesMap(setOut) THEN cache
                       ELSE (key :> [val |-> got[p], at |-> now]) @@ cache
          /\ timers' = IF ~UsesMap(setOut) THEN timers
                        ELSE timers (+) SetToBag({[key |-> key, wake |-> ExpiryWake(now)]})
          /\ putAt' = IF stored THEN (key :> [at |-> now, val |-> got[p]]) @@ putAt
                       ELSE putAt
          /\ last' = Respond([req[p] EXCEPT !.calls.set = @ + 1],
                             ProfileResponse(GetProfileReturn(got[p], setOut)),
                             FALSE, ZeroUser, [user |-> got[p], err |-> ""],
                             IF redisOn THEN setOut ELSE "ok")
    /\ pc' = [pc EXCEPT ![p] = "idle"]
    /\ req' = [req EXCEPT ![p] = NoReq]
    /\ got' = [got EXCEPT ![p] = ZeroUser]
    /\ UNCHANGED <<storeVars, clockVars, modeVars, tokenVars>>

\* the expiry goroutine of an insertion wakes: s.cache.Delete(cacheKey)
Expire(tm) ==
    /\ BagIn(tm, timers)
    /\ now >= tm.wake
    /\ cache' = [k \in DOMAIN cache \ {tm.key} |-> cache[k]]
    /\ timers' = timers (-) SetToBag({tm})
    /\ UNCHANGED <<storeVars, rstore, putAt, slotVars, last, clockVars, modeVars, tokenVars>>

\* The moments something is due: the wake of an expiry goroutine and the
\* expiry of an entry of the shared backend
CacheDeadlines == {tm.wake : tm \in BagToSet(timers)} \cup {rstore[k].exp : k \in DOMAIN rstore}

\* the exp of the token held, the tick before it, the end of the token's lifetime
TokenDeadlines ==
    IF wallet = NoToken THEN {}
    ELSE {wallet.exp * Second - 1, wallet.exp * Second, issued.at + tokenTTL}

\* the clock advances by one tick, or to a deadline
Jumps(deadlines) == {d \in {1} \cup {t - now : t \in deadlines} : d > 0}

\* d ticks pass.  A goroutine whose sleep has ended runs when it is scheduled,
\* at its wake time or later.  The shared backend drops the entries whose
\* TTL has run out.
Tick(d) ==
    /\ ticks < MaxTicks
    /\ now' = now + d
    /\ ticks' = ticks + 1
    /\ rstore' = [k \in {k \in DOMAIN rstore : now + d < rstore[k].exp} |-> rstore[k]]
    /\ UNCHANGED <<storeVars, cache, timers, putAt, slotVars, last, modeVars, tokenVars>>

\* Server.Start: a SIGINT or SIGTERM arrives on quit; Start calls
\* httpServer.Shutdown with a context that ends after shutdownTimeout.  The
\* handlers that are running go on.
Signal ==
    /\ srv.at = "serving"
    /\ srv' = [srv EXCEPT !.at = "shutting", !.deadline = now + shutdownTimeout]
    /\ UNCHANGED <<storeVars, cacheVars, slotVars, last, clockVars,
                   redisOn, natsOn, natsWarned, tokenVars>>

\* httpServer.Shutdown returns: nil once no request is running, or the error
\* of its context once the deadline has passed (forced), whatever is running
ShutdownReturns(forced) ==
    /\ srv.at = "shutting"
    /\ IF forced THEN now >= srv.deadline ELSE \A p \in Procs : pc[p] = "idle"
    /\ srv' = [srv EXCEPT !.at = "returned", !.forced = forced]
    /\ UNCHANGED <<storeVars, cacheVars, slotVars, last, clockVars,
                   redisOn, natsOn, natsWarned, tokenVars>>

\* Server.Start: s.pool.Close(), the statement after Shutdown
PoolClose ==
    /\ srv.at = "returned"
    /\ srv' = [srv EXCEPT !.at = "closed", !.pool = "closed"]
    /\ UNCHANGED <<storeVars, cacheVars, slotVars, last, clockVars,
                   redisOn, natsOn, natsWarned, tokenVars>>

\* Start returns and main returns: the process ends, and its handlers with it
Exit ==
    /\ srv.at = "closed"
    /\ srv' = [srv EXCEPT !.at = "exited"]
    /\ UNCHANGED <<storeVars, cacheVars, slotVars, last, clockVars,
                   redisOn, natsOn, natsWarned, tokenVars>>

\* the listener accepts a request to /users/{id} that passes the middleware;
\* Shutdown closes the listener
Accept(p, param, cacheOut) ==
    /\ srv.at = "serving"
    /\ HandlerGetProfile(p, [NoLast EXCEPT !.bare = FALSE, !.valid = TRUE], param, cacheOut)

\* the store lookup of a running handler, on the pool as it is: a query on
\* a closed pool fails
FetchOnPool(p, dbOut) ==
    /\ srv.at # "exited"
    /\ Fetch(p, IF srv.pool = "closed" THEN "closed" ELSE dbOut)

\* the cache insertion and the response of a running handler
PutWhileUp(p, setOut) ==
    /\ srv.at # "exited"
    /\ Put(p, setOut)

\* the deadline of Shutdown's context
ShutdownDeadlines == IF srv.at = "shutting" THEN {srv.deadline} ELSE {}

\* Registration and login at one instant: every argument and every outcome of
\* the hasher, the database and the event bus.
Next ==
    \/ \E u \in Usernames, e \in Emails, pw \in {"", "Secret123", Long73},
          r \in Roles, s \in Salts, ho \in {"ok", "error"}, do \in DbOutcomes :
            HandleRegister(NoHeader, u, e, pw, r, s, ho, do)
    \/ \E g \in pend, po \in {"ok", "error"} : RegisterReturns(g, po)
    \/ \E e \in Emails \cup {""}, pw \in Passwords, do \in DbOutcomes :
            HandleLogin(NoHeader, e, pw, do)

Spec == Init /\ [][Next]_vars

\* The routes: clients log in and send requests with and without tokens
\* while time passes; one request to /users/{id} at a time.
NextRoutes ==
    \/ \E e \in Emails, pw \in {"Secret123", "wrong"} : HandleLogin(NoHeader, e, pw, "ok")
    \/ \E route \in {"GET /health", "GET /metrics"}, h \in OpenHeaders :
            ServeOpen(route, h)
    \/ \E h \in Headers(now), param \in Params : GetUsers("r1", h, param, "ok")
    \/ Fetch("r1", "ok")
    \/ Put("r1", "ok")
    \/ \E d \in Jumps(TokenDeadlines \cup CacheDeadlines) : Tick(d)

\* with the event bus and the shared cache backend connected
InitRoutes == InitSeeded /\ natsOn /\ redisOn

SpecRoutes == InitRoutes /\ [][NextRoutes]_vars

\* The profile handler under concurrent requests for one id: the requests
\* have passed the middleware, and the user registers meanwhile.
NextCache ==
    \/ HandleRegister(NoHeader, "alice", "a@x.com", "Secret123", "", "s1", "ok", "ok")
    \/ \E g \in pend : RegisterReturns(g, "ok")
    \/ \E p \in Procs, co \in RedisGetOutcomes :
            HandlerGetProfile(p, [NoLast EXCEPT !.bare = FALSE, !.valid = TRUE], <<"1">>, co)
    \/ \E p \in Procs, do \in {"ok", "error"} : Fetch(p, do)
    \/ \E p \in Procs, so \in RedisSetOutcomes : Put(p, so)
    \/ \E tm \in BagToSet(timers) : Expire(tm)
    \/ \E d \in Jumps(CacheDeadlines) : Tick(d)

\* with the event bus connected
InitCache == Init /\ natsOn

\* The three operations with every outcome of the store, the cache and the
\* bus, at one instant, in either mode and with the bus connected or not; one
\* request to /users/{id} at a time.
NextCalls ==
    \/ \E ho \in {"ok", "error"}, do \in DbOutcomes :
            HandleRegister(NoHeader, "alice", "a@x.com", "Secret123", "", "s1", ho, do)
    \/ \E g \in pend, po \in {"ok", "error"} : RegisterReturns(g, po)
    \/ \E e \in Emails, pw \in {"Secret123", "wrong"}, do \in DbOutcomes :
            HandleLogin(NoHeader, e, pw, do)
    \/ \E co \in RedisGetOutcomes :
            HandlerGetProfile("r1", [NoLast EXCEPT !.bare = FALSE, !.valid = TRUE], <<"1">>, co)
    \/ \E do \in DbOutcomes : Fetch("r1", do)
    \/ \E so \in RedisSetOutcomes : Put("r1", so)

SpecCalls == Init /\ [][NextCalls]_vars

SpecCache == InitCache /\ [][NextCache]_vars

\* The service called directly, with every outcome of the hasher, the
\* database and the event bus, and with the caller's context cancelled.
NextService ==
    \/ \E e \in Emails, pw \in ServicePasswords, r \in {"user"},
          s \in Salts, ho \in {"ok", "error"}, do \in CallOutcomes :
            ServiceRegister("alice", e, pw, r, s, ho, do)
    \/ \E g \in pend, po \in {"ok", "error"} : ServiceRegisterReturns(g, po)
    \/ \E e \in Emails, pw \in ServicePasswords, do \in CallOutcomes :
            ServiceLogin(e, pw, do)

\* with the shared cache backend connected
InitService == Init /\ redisOn

SpecService == InitService /\ [][NextService]_vars

\* The server from start to exit: requests to /users/{id} arrive until the
\* signal, the handlers run on while Start shuts the server down and closes
\* the pool.
NextShutdown ==
    \/ \E p \in Procs, param \in {<<"1">>, <<"-", "1", "0">>} : Accept(p, param, "ok")
    \/ \E p \in Procs, do \in {"ok", "error"} : FetchOnPool(p, do)
    \/ \E p \in Procs : PutWhileUp(p, "ok")
    \/ Signal
    \/ \E forced \in BOOLEAN : ShutdownReturns(forced)
    \/ PoolClose
    \/ Exit
    \/ \E d \in Jumps(ShutdownDeadlines) : srv.at # "exited" /\ Tick(d)

\* with two users in the table and the event bus connected
InitShutdown == InitSeeded /\ natsOn

SpecShutdown == InitShutdown /\ [][NextShutdown]_vars

-----------------------------------------------------------------------------
(* Properties of registration and login, checked under Spec *)

\* the hash stored for an email that has a row
HashOf(email) == (CHOOSE r \in RowsByEmail(email) : TRUE).password_hash

\* C1: in every state of the store, a login with an email that has no row and
\* a login with an email that has a row but another password get the same
\* response, status and body.
C1_LoginFailuresIndistinguishable ==
    \A e1 \in Emails, e2 \in Emails, pw \in Passwords :
        ( /\ RowsByEmail(e1) = {}
          /\ RowsByEmail(e2) # {}
          /\ ~CompareHashAndPassword(HashOf(e2), pw) )
        => HandlerLogin(e1, pw, "ok", now) = HandlerLogin(e2, pw, "ok", now)

\* a login with a wrong password has been answered while another email has no row
C1_Witness ==
    /\ last.op = "POST /login"
    /\ last.err = "invalid password"
    /\ \E e \in Emails : RowsByEmail(e) = {}

\* C5: a Register whose insert succeeded answers 201 with the created user
\* and no error, whether the publish succeeded, failed or was not tried.
C5_PublishFailureAbsorbed ==
    (last.op = "POST /register" /\ last.db = "ok")
    => /\ last.err = ""
       /\ last.status = StatusCreated
       /\ last.body \in {ToDomain(r) : r \in RowsByEmail(last.email)}

\* a Register succeeded although its publish failed
C5_Witness ==
    /\ last.op = "POST /register"
    /\ last.db = "ok"
    /\ last.pub = "error"
    /\ last.status = StatusCreated

\* the response carries a token
HasToken(r) == r.status = StatusOK /\ "token" \in DOMAIN r.body

\* what C6 says of a login for the email of a registration g
LoginAfterRegister(g) ==
    IF last.password = g.password
    THEN /\ HasToken(last)
         /\ last.body.token \notin {NoToken, Malformed}
         /\ last.body.token.user_id = g.id
         /\ last.body.token.role = g.role
    ELSE ~HasToken(last)

\* C6 as stated: after a Register that succeeded with id N, every Login with
\* its email and password returns a token with claims (N, role), and every
\* Login with its email and another password returns no token.
C6_Original ==
    \A g \in regs :
        (last.op = "POST /login" /\ last.email = g.email) => LoginAfterRegister(g)

\* C6 for the logins through POST /login whose store lookup succeeded, with
\* the passwords of Passwords (all shorter than 72 bytes).
C6_LoginAfterRegister ==
    \A g \in regs :
        (last.op = "POST /login" /\ last.email = g.email /\ last.db = "ok")
        => LoginAfterRegister(g)

\* a registered user has logged in and got a token
C6_Witness ==
    /\ last.op = "POST /login"
    /\ HasToken(last)
    /\ \E g \in regs : g.email = last.email /\ g.password = last.password

\* C10: a request whose database call failed gets 500.
C10_StoreFailureIsInternal ==
    last.db \in {"error", "timeout"} => last.status = StatusInternalServerError

\* C11: a Register that failed on the unique email gets a status other than
\* the one a Register gets whose insert failed otherwise, and the table holds
\* one row per email.
C11_DuplicateEmailDistinct ==
    /\ (last.op = "POST /register" /\ last.db = "duplicate") =>
          last.status # RegisterResponse([user |-> ZeroUser,
                                          err |-> DbErrorText("error")]).status
    /\ \A r1 \in users, r2 \in users : r1.email = r2.email => r1 = r2

\* C13: a Login whose store lookup met the deadline gets a response that
\* differs from the response to every other Login that fails.
C13_TimeoutDistinct ==
    (last.op = "POST /login" /\ last.db = "timeout") =>
        \A e \in Emails, pw \in Passwords \ {""}, do \in {"ok", "error"} :
            LET other == HandlerLogin(e, pw, do, now)
            IN other.status # StatusOK =>
                 [status |-> last.status, body |-> last.body] # other

-----------------------------------------------------------------------------
(* Properties of the tokens and of the routes, checked under SpecRoutes *)

\* the token verifies at time t: the middleware lets a request through that
\* carries it
VerifiesAt(tok, t) == AuthMiddleware(Header(Bearer, tok), t)

\* the claims of the token held are those of the user it was issued for
ClaimsAsIssued ==
    \E g \in regs :
        g.email = issued.email /\ wallet.user_id = g.id /\ wallet.role = g.role

\* the token held verifies, to the claims issued, exactly before the time limit,
\* and the same claims signed with another secret do not verify
VerifiesUntil(limit) ==
    wallet # NoToken =>
        /\ now < limit => (VerifiesAt(wallet, now) /\ ClaimsAsIssued)
        /\ now >= limit => ~VerifiesAt(wallet, now)
        /\ ~VerifiesAt([wallet EXCEPT !.key = OtherSecret], now)

\* C7 as stated: a token issued by Login verifies at every time before
\* issuance + ttl and at no time from issuance + ttl on, and never under
\* another secret.
C7_Original == VerifiesUntil(issued.at + tokenTTL)

\* C7 amended: the limit is issuance + ttl cut to a whole second, the exp
\* claim; the token verifies before it and not from it on.
C7_VerifiesUntilExp == VerifiesUntil(Unix(issued.at + tokenTTL) * Second)

\* a request with the token held was refused at the exp claim, less than the
\* ttl after the token was issued
C7_Witness ==
    /\ wallet # NoToken
    /\ now = wallet.exp * Second
    /\ now < issued.at + tokenTTL
    /\ last.op = "GET /users/{id}"
    /\ ~last.bare
    /\ last.status = StatusUnauthorized

\* time.Now().Add(d).Unix() is e, for the instant t of the clock, a Duration
\* d and whole seconds e: e seconds <= t + d < e + 1 seconds, compared in
\* nanoseconds times Second so that a tick is a whole number
UnixOfAdd(t, d, e) ==
    LET w == IntBytes + 4
        nanos == Bytes(1000000000, w)
        second == MulBytes(nanos, Bytes(Second, w))
        instant == AddBytes(MulBytes(Bytes(t, w), nanos), MulBytes(Extend(d, w), Bytes(Second, w)))
        past == SubBytes(instant, MulBytes(Bytes(e, w), second))
    IN ~Negative(past) /\ Negative(SubBytes(past, second))

\* C16: the exp claim of the token held is the time of issue plus the hours
\* JWT_EXPIRY_HOURS configures (24 when unset or no number), in seconds.
C16_LifetimeAsConfigured ==
    \A env \in ExpiryEnvs :
        wallet # NoToken => UnixOfAdd(issued.at, JWTExpiry(env), wallet.exp)

OpenRoutes == {"POST /register", "POST /login", "GET /health", "GET /metrics"}

\* C8: the profile handler runs only for requests that carried a token with a
\* valid signature and unexpired claims; a request to /users/{id} without a
\* header or with an invalid token gets 401 and no handler; the other routes
\* let every request through, with or without a token.
C8_ProfileBehindValidToken ==
    /\ \A p \in Procs : pc[p] # "idle" => req[p].valid
    /\ last.op = "GET /users/{id}" =>
          /\ last.handler <=> last.valid
          /\ ~last.valid => (last.status = StatusUnauthorized /\ last.body = Unauthorized.body)
          /\ last.bare => ~last.valid
    /\ last.op \in OpenRoutes => last.handler
    /\ \A route \in OpenRoutes, h \in Headers(now) : Admitted(route, h, now)

\* a request to /users/{id} that carried a header without a valid token was
\* answered 401
C8_Witness ==
    /\ last.op = "GET /users/{id}"
    /\ ~last.bare
    /\ ~last.valid
    /\ last.status = StatusUnauthorized
    /\ ~last.handler

\* C26: access to /users/{id} depends on the token being valid, not on whose
\* token it is: every valid token is admitted whatever its user_id and role
\* claims are, and a request with a valid token for the id of an existing
\* user is answered 200 with that user's profile, whoever the token was
\* issued for.
C26_AnyValidTokenAnyProfile ==
    /\ \A h \in Headers(now) :
          CarriesValidToken(h, now) => Admitted("GET /users/{id}", h, now)
    /\ \A p \in Procs : pc[p] # "idle" => req[p].valid
    /\ (last.op = "GET /users/{id}" /\ last.valid) =>
          /\ last.handler
          /\ RowsByID(last.id) # {} =>
                /\ last.status = StatusOK
                /\ last.body \in {ToDomain(r) : r \in RowsByID(last.id)}

\* the token issued for user 1 with role user was served the profile of user
\* 2, an admin: the response came from the cache, in the step in which the
\* request arrived, and the one valid token the client holds was issued for
\* user 1
C26_Witness ==
    /\ last.op = "GET /users/{id}"
    /\ last.valid
    /\ last.how = "hit"
    /\ wallet.user_id = 1
    /\ wallet.role = "user"
    /\ last.id = 2
    /\ last.status = StatusOK
    /\ last.body.id = 2
    /\ last.body.role = "admin"

-----------------------------------------------------------------------------
(* Properties of GetProfile and of the cache, checked under SpecCache *)

ProfileRoute == "GET /users/{id}"

\* C2: a GetProfile that arrives within the TTL of an insertion of an existing
\* user under its key (and, in shared mode, is answered by the backend) finds
\* the entry, returns the data inserted and makes no store lookup.
C2_HitWithinTTL ==
    /\ \A p \in Procs : pc[p] # "idle" => ~req[p].fresh
    /\ (last.op = ProfileRoute /\ last.fresh) =>
          /\ last.how = "hit"
          /\ last.db = "none"
          /\ last.status = StatusOK
          /\ last.body = last.first

\* C3: in degraded mode no entry of the cache is older than the TTL, so a
\* lookup returns none that is; once more than the TTL has passed since the
\* last insertion of a key, the key is absent.
C3_NoEntryOlderThanTTL ==
    ~redisOn =>
        /\ \A k \in DOMAIN cache : now - cache[k].at <= cacheTTL
        /\ \A k \in DOMAIN putAt : now > putAt[k].at + cacheTTL => k \notin DOMAIN cache
        /\ (last.op = ProfileRoute /\ last.how = "hit") => ~last.stale

\* the response of GetProfile on an empty, working cache, from what the store
\* lookup of the request met
FetchThrough ==
    IF last.db # "ok" \/ ~last.found
    THEN WriteError("internal server error", StatusInternalServerError)
    ELSE [status |-> StatusOK, body |-> last.store.user]

\* C4: a GetProfile whose cache lookup failed or returned bytes that do not
\* decode, or whose cache insertion failed, looks the user up in the store
\* and answers as on an empty, working cache.
C4_CacheFailureAbsorbed ==
    (last.op = ProfileRoute /\ (last.how \in {"error", "undecodable"} \/ last.set = "error"))
    => /\ last.db # "none"
       /\ last.status = FetchThrough.status
       /\ last.body = FetchThrough.body
       /\ last.found => last.store.user.id = last.id

\* a GetProfile returned the user although the cache insertion failed
C4_Witness ==
    /\ last.op = ProfileRoute
    /\ last.set = "error"
    /\ last.status = StatusOK
    /\ last.body.id = last.id

\* C9: a GetProfile whose store lookup finds no row answers 404 user not
\* found; one whose store lookup fails answers 500 internal server error.
C9_NotFoundDistinctFromFailure ==
    last.op = ProfileRoute =>
        /\ (last.db = "ok" /\ ~last.found) =>
              (last.status = StatusNotFound /\ last.body = [error |-> "user not found"])
        /\ last.db \in {"error", "timeout"} =>
              (last.status = StatusInternalServerError
               /\ last.body = [error |-> "internal server error"])

\* the columns of a user as callers, caches and events see it
UserFields == DOMAIN ZeroUser

\* C15: no response of Register or GetProfile, no entry of the in-process
\* cache or of the shared backend, no event published and no token of Login
\* carries the password hash of a row.
C15_HashStaysInside ==
    /\ (last.op \in {"POST /register", ProfileRoute} /\ last.status \in {StatusOK, StatusCreated})
          => DOMAIN last.body = UserFields
    /\ \A p \in Procs : DOMAIN got[p] = UserFields
    /\ \A k \in DOMAIN cache : DOMAIN cache[k].val = UserFields
    /\ \A k \in DOMAIN rstore :
          /\ Unmarshal(rstore[k].val).ok
          /\ DOMAIN Unmarshal(rstore[k].val).user = UserFields
          /\ Marshal(Unmarshal(rstore[k].val).user) = rstore[k].val
    /\ \A i \in 1..Len(published) :
          \E r \in users : published[i] = <<"user.verify", r.id, r.email>>
    /\ \A e \in Emails, pw \in Passwords :
          DOMAIN Login(e, pw, "ok", now).token = {"user_id", "role", "exp", "key"}

\* the user is registered, the event is published, the profile has been
\* served and is cached
C15_Witness ==
    /\ users # {}
    /\ published # <<>>
    /\ last.op = ProfileRoute
    /\ last.status = StatusOK
    /\ (DOMAIN cache # {} \/ DOMAIN rstore # {})

\* the mode as the cache shows it: in shared mode the in-process map is
\* empty and no expiry goroutine sleeps, even after failed calls of the
\* backend; in degraded mode the backend holds nothing and no request has
\* called it
ModeKept ==
    /\ redisOn =>
          (DOMAIN cache = {} /\ timers = EmptyBag)
    /\ ~redisOn =>
          /\ DOMAIN rstore = {}
          /\ \A p \in Procs : req[p].how \notin {"error", "undecodable"}
          /\ last.how \notin {"error", "undecodable"}
          /\ last.set # "error"

\* C21: the cache mode chosen at construction never changes, and each mode
\* uses its own store only.
C21_ModeChosenOnce == []ModeKept /\ [][redisOn' = redisOn]_vars

\* in shared mode a GetProfile whose cache lookup and cache insertion both
\* failed has returned the user
C21_Witness ==
    /\ redisOn
    /\ last.op = ProfileRoute
    /\ last.how = "error"
    /\ last.set = "error"
    /\ last.status = StatusOK

\* the operations in progress and the last one answered
Operations ==
    {last} \cup {g.arrival : g \in pend} \cup {req[p] : p \in {q \in Procs : pc[q] # "idle"}}

\* C22: no operation, in progress or answered, has made any of its calls
\* twice: a Register at most one store write, drawing at most one id, and one
\* publish; a Login at most one store lookup; a GetProfile at most one cache
\* get, one store lookup and one cache put.  A call that failed was made once
\* and its failure ended the operation with an error (a store write or a store
\* lookup) or was passed over (a cache get, a cache put, a publish).
C22_NoRetry ==
    /\ \A o \in Operations : \A k \in DOMAIN o.calls : o.calls[k] <= 1
    /\ (last.op = "POST /register" /\ last.db \in {"error", "timeout", "duplicate"})
          => /\ last.calls.insert = 1
             /\ last.calls.publish = 0
             /\ last.status = StatusInternalServerError
    /\ (last.op = "POST /register" /\ last.pub = "error")
          => /\ last.calls.insert = 1
             /\ last.calls.publish = 1
             /\ last.status = StatusCreated
    /\ (last.op = "POST /login" /\ last.db \in {"error", "timeout"})
          => /\ last.calls.lookup = 1
             /\ last.status = StatusUnauthorized
    /\ (last.op = ProfileRoute /\ last.how \in {"error", "undecodable"})
          => /\ last.calls.get = 1
             /\ last.calls.lookup = 1
    /\ (last.op = ProfileRoute /\ last.db \in {"error", "timeout"})
          => /\ last.calls.lookup = 1
             /\ last.calls.set = 0
             /\ last.status = StatusInternalServerError
    /\ (last.op = ProfileRoute /\ last.set = "error")
          => /\ last.calls.set = 1
             /\ last.status = StatusOK

\* a Login has failed on its store lookup, after an insert has failed on the
\* unique constraint, while a GetProfile whose cache get failed waits for its
\* store lookup and a Register waits for its publish
C22_Witness ==
    /\ last.op = "POST /login"
    /\ last.db = "timeout"
    /\ last.calls.lookup = 1
    /\ dbSeq > Cardinality(users)
    /\ \E p \in Procs : pc[p] = "fetch" /\ req[p].how = "error" /\ req[p].calls.get = 1
    /\ \E g \in pend : g.arrival.calls.insert = 1

\* C23: every entry of the cache, in either mode, under the key of id N is
\* the user of the row with id N; no key holds an entry whose id has no row.
C23_EntriesReflectStore ==
    /\ \A k \in DOMAIN cache :
          \E r \in users : k = CacheKey(r.id) /\ cache[k].val = ToDomain(r)
    /\ \A k \in DOMAIN rstore :
          \E r \in users : k = CacheKey(r.id) /\ rstore[k].val = Marshal(ToDomain(r))

\* a request that arrived while its id had no row has inserted the entry of
\* the row created meanwhile
C23_Witness ==
    /\ last.op = ProfileRoute
    /\ last.early
    /\ last.set = "ok"
    /\ CacheKey(last.id) \in DOMAIN cache \cup DOMAIN rstore

\* C24: a GetProfile(N) that arrives after a Register has returned the user
\* with id N answers 200 with that user, from the cache or from the store,
\* or 500 when its store lookup fails; it never answers not found.
C24_RegisteredIsFound ==
    /\ \A g \in regs : RowsByID(g.id) # {}
    /\ (last.op = ProfileRoute /\ last.late) =>
          IF last.db \in {"none", "ok"}
          THEN /\ last.status = StatusOK
               /\ last.body \in {ToDomain(r) : r \in RowsByID(last.id)}
          ELSE last.status = StatusInternalServerError

\* a GetProfile that arrived after the Register had returned was answered
\* from the cache with the user registered
C24_Witness ==
    /\ last.op = ProfileRoute
    /\ last.late
    /\ last.how = "hit"
    /\ last.status = StatusOK
    /\ \E g \in regs : g.id = last.id /\ last.body.email = g.email

\* C25: in degraded mode the last insertion of a key is in the map at every
\* time before its own TTL has passed.
C25_ExpiryRemovesOwnInsertion ==
    ~redisOn =>
        \A k \in DOMAIN putAt :
            now < putAt[k].at + cacheTTL =>
                (k \in DOMAIN cache /\ cache[k].at = putAt[k].at)

-----------------------------------------------------------------------------
(* Properties of the service called directly, checked under SpecService *)

\* C6, for the service: after a Register that succeeded with id N, a Login
\* with its email whose store lookup succeeds returns a token with claims
\* (N, role) when given its password, and no token when given another.
C6_OnlyThePasswordLogsIn ==
    \A g \in regs :
        (last.op = "Login" /\ last.email = g.email /\ last.db = "ok") =>
            IF last.password = g.password
            THEN /\ last.err = ""
                 /\ last.body.token \notin {NoToken, Malformed}
                 /\ last.body.token.user_id = g.id
                 /\ last.body.token.role = g.role
            ELSE /\ last.err # ""
                 /\ last.body.token = NoToken

\* C12: in every state a Register with the empty password returns the error
\* "password required" whatever the hasher and the store would do, and
\* leaves the table, the sequence and the bus as they are; none has called
\* the store or the bus.
C12_EmptyPasswordRejectedFirst ==
    /\ \A e \in Emails, r \in {"user", "admin"}, ho \in {"ok", "error"}, do \in CallOutcomes :
          Register("alice", e, "", r, "s1", ho, do) =
              [user |-> ZeroUser, err |-> "password required",
               rows |-> users, seq |-> dbSeq, bus |-> published, inserts |-> 0]
    /\ \A g \in pend : g.arrival.password # ""
    /\ (last.op = "Register" /\ last.password = "")
          => /\ last.err = "password required"
             /\ last.body = ZeroUser
             /\ last.db = "none"
             /\ last.pub = "none"

\* a Register with the empty password was refused on a table that holds a
\* user, with the bus connected and an event published
C12_Witness ==
    /\ last.op = "Register"
    /\ last.password = ""
    /\ last.err = "password required"
    /\ users # {}
    /\ published # <<>>

\* C14: the stored hash of a registration verifies the password it was
\* produced for and no other password.
C14_HashVerifiesOnlyItsPassword ==
    \A g \in regs, pw \in ServicePasswords \cup Passwords :
        CompareHashAndPassword(HashOf(g.email), pw) <=> pw = g.password

\* C17: when the connection to the bus failed at construction, the warning
\* has been logged once, the notifier is still disabled, nothing has ever
\* been published, no Register has tried to publish, and a Register whose
\* insert succeeded has returned the user.
C17_NotifierDisabledForGood ==
    natsWarned # 0 =>
        /\ natsWarned = 1
        /\ ~natsOn
        /\ published = <<>>
        /\ last.op = "Register" => last.pub = "none"
        /\ (last.op = "Register" /\ last.db = "ok") =>
              (last.err = "" /\ last.body \in {ToDomain(r) : r \in RowsByEmail(last.email)})

\* a Register succeeded on a service whose bus connection failed at construction
C17_Witness ==
    /\ natsWarned = 1
    /\ last.op = "Register"
    /\ last.db = "ok"
    /\ last.err = ""
    /\ users # {}

\* C18: no call of the store is torn down by the cancellation of the
\* caller's context: none ends with the context's error.
C18_CancelRunsToCompletion ==
    last.op \in {"Register", "Login"} =>
        (last.db # "canceled" /\ last.err # "context canceled")

\* C19: a Register whose hashing or insert failed returns an error and no
\* user and has not tried to publish; every event published is about a user
\* the table holds.
C19_PublishOnlyAfterPersist ==
    /\ (last.op = "Register" /\ last.db # "ok") =>
          (last.err # "" /\ last.body = ZeroUser /\ last.pub = "none")
    /\ \A i \in 1..Len(published) :
          \E r \in users : published[i] = VerifyMsg(ToDomain(r))

\* a Register failed on the unique constraint with the bus connected and
\* one event published before
C19_Witness ==
    /\ natsOn
    /\ last.op = "Register"
    /\ last.db = "duplicate"
    /\ last.err # ""
    /\ Len(published) = 1

\* C20: a Register that succeeded with the notifier enabled has returned
\* without its publish having been attempted inside the call.
C20_PublishDetached ==
    (last.op = "Register" /\ last.err = "" /\ NotifierEnabled) => last.pub = "none"

-----------------------------------------------------------------------------
(* Properties of Server.Start, checked under SpecShutdown *)

\* the pool is closed only once Shutdown has returned
PoolClosedAfterShutdown == srv.pool = "closed" => srv.at \in {"closed", "exited"}

\* every request that is running is inside the deadline of its handler's
\* context, which began no earlier than the start of the server
InsideHandlerTimeout == now < handlerTimeout

\* C27: on SIGINT/SIGTERM the pool is closed only after Shutdown has returned,
\* and no handler performs a persistence call on the pool after it has been
\* closed, also when Shutdown gave up at its deadline with requests running.
C27_NoCallOnClosedPool ==
    /\ PoolClosedAfterShutdown
    /\ last.db # "closed"

====
